---- MODULE Spec2Model ----
(***************************************************************************)
(* star-drawing: the <drawing-canvas> element's state synchronizer         *)
(* (onStateChange) and the popover / progressive-disclosure state machine  *)
(* of drawing_toolbar, modelled from src/src/star_drawing/__init__.py.     *)
(***************************************************************************)
EXTENDS Integers, Sequences, FiniteSets, TLC

VARIABLES
    el,          \* the <drawing-canvas> element's attributes (signal)
    sp,          \* the element's Local cells, sp['$$' + key]
    shared,      \* the page-wide signal namespace written by datastar.mergePatch
    patch,       \* the argument of the latest onStateChange call
    merged,      \* the globalPatch of the latest datastar.mergePatch call
    raised,      \* the latest onStateChange call threw to its caller
    peer,        \* a second <drawing-canvas> of the page: signal, sp, patch
    config,      \* the keyword arguments of a drawing_toolbar call
    bar_items,   \* the bar_items list that call built
    encoded,     \* the latest palette_json call: its argument and its result
    style_open,  \* toolbar signals created by canvas.signal(...)
    color_open,
    file_open,
    text_seen,
    arrow_seen,
    clicked,     \* history: reveal-once tools whose toolbar button has been clicked
    save_enabled,\* the "Save SVG" button takes clicks (no disabled attribute)
    pending,     \* exportSvg promises started by "Save SVG" and not yet settled
    downloaded,  \* the SVG strings handed to the browser as drawing.svg, in order
    saves,       \* history: the number of clicks on "Save SVG"
    input_value, \* the value of the hidden file input ("" or the chosen file's name)
    reading,     \* file.text() promises not yet fulfilled: the texts they will give
    chosen,      \* history: the texts of the files selected, in order
    imported,    \* history: the arguments of the importSvg calls, in order
    last         \* history: the latest UI event and what it saw before it ran

vars == <<el, sp, shared, patch, merged, raised, peer, config, bar_items, encoded,
          style_open, color_open, file_open, text_seen, arrow_seen, clicked, last,
         save_enabled, pending, downloaded, saves, input_value, reading, chosen,
         imported>>

toolbar_vars == <<style_open, color_open, file_open, text_seen, arrow_seen, clicked>>

canvas_vars == <<sp, shared, patch, merged, raised>>

composer_vars == <<config, bar_items, encoded>>

file_vars == <<save_enabled, pending, downloaded, saves, input_value, reading, chosen,
         imported>>

----------------------------------------------------------------------------
(* Module data                                                              *)

TOOL_GROUPS ==
    << << <<"select", "Select">> >>,
       << <<"pen", "Pen">>, <<"line", "Line">>, <<"arrow", "Arrow">> >>,
       << <<"rect", "Rectangle">>, <<"ellipse", "Ellipse">>, <<"diamond", "Diamond">> >>,
       << <<"text", "Text">>, <<"highlighter", "Highlighter">>, <<"eraser", "Eraser">> >> >>

DEFAULT_PALETTE ==
    [stroke |->
       [light |-> << <<"#1a1a2e", "Ink">>, <<"#5c5f6e", "Graphite">>,
                     <<"#d94040", "Vermillion">>, <<"#e8772a", "Tangerine">>,
                     <<"#c49b1a", "Goldenrod">>, <<"#2d9e5e", "Forest">>,
                     <<"#3568d4", "Cobalt">>, <<"#7c4dca", "Iris">>,
                     <<"#d4507a", "Rose">>, <<"#a0603a", "Sienna">> >>,
        dark  |-> << <<"#e4e4e7", "Silver">>, <<"#a1a1aa", "Zinc">>,
                     <<"#f87171", "Coral">>, <<"#fb923c", "Amber">>,
                     <<"#facc15", "Gold">>, <<"#4ade80", "Mint">>,
                     <<"#60a5fa", "Sky">>, <<"#a78bfa", "Violet">>,
                     <<"#f472b6", "Pink">>, <<"#d4a574", "Caramel">> >>],
     fill |->
       [light |-> << <<"#ffffff", "White">>, <<"#e8e3db", "Warm Linen">>,
                     <<"#fecdd3", "Rose Mist">>, <<"#fed7aa", "Peach Cream">>,
                     <<"#fef3c7", "Butter">>, <<"#bbf7d0", "Mint">>,
                     <<"#bfdbfe", "Sky">>, <<"#ddd6fe", "Lavender">>,
                     <<"#fce7f3", "Blush">>, <<"#e8d5c4", "Tan">> >>,
        dark  |-> << <<"#2a2a3e", "Dark Slate">>, <<"#3a3a4e", "Charcoal">>,
                     <<"#4c1d1d", "Deep Rose">>, <<"#4c3319", "Deep Amber">>,
                     <<"#4c4419", "Deep Gold">>, <<"#1a3d2e", "Deep Mint">>,
                     <<"#1a2d4c", "Deep Sky">>, <<"#2d1a4c", "Deep Violet">>,
                     <<"#4c1a3a", "Deep Pink">>, <<"#3d2d1a", "Deep Caramel">> >>]]

\* name -> initial value of every Local cell (opacity 1.0 is written 1)
_SIGNALS ==
    [tool |-> "pen", is_drawing |-> FALSE, can_undo |-> FALSE, can_redo |-> FALSE,
     text_editing |-> FALSE, stroke_color |-> "palette-stroke-0",
     stroke_color_css |-> "#1a1a2e", fill_color |-> "", fill_color_css |-> "",
     fill_enabled |-> FALSE, stroke_width |-> 2, dash_length |-> 0, dash_gap |-> 0,
     opacity |-> 1, selected_ids |-> "[]", active_layer |-> "default",
     font_family |-> "hand-drawn", font_size |-> "medium", text_align |-> "left",
     start_arrowhead |-> "none", end_arrowhead |-> "none",
     selected_is_line |-> FALSE, selected_is_text |-> FALSE,
     selected_is_highlighter |-> FALSE, theme |-> "light"]

----------------------------------------------------------------------------
(* Bounds of the model                                                      *)

\* palette tokens carried by patches have index 0 or MaxIndex
MaxIndex == 2

----------------------------------------------------------------------------
(* Helpers                                                                  *)

\* assignment of g's entries over f (object spread / merge of flat objects)
Merge(f, g) ==
    [k \in (DOMAIN f) \cup (DOMAIN g) |-> IF k \in DOMAIN g THEN g[k] ELSE f[k]]

\* the flattened ids of TOOL_GROUPS
ToolIds ==
    UNION {{TOOL_GROUPS[g][i][1] : i \in 1..Len(TOOL_GROUPS[g])} :
              g \in 1..Len(TOOL_GROUPS)}

Themes == {"light", "dark"}

Kinds == {"stroke", "fill"}

\* f"{token_prefix}{i}" with token_prefix "palette-stroke-" / "palette-fill-"
Token(kind, i) == "palette-" \o kind \o "-" \o ToString(i)

\* the token strings a palette of this size can name, and one index past it
Tokens ==
    [h \in Kinds \X (0 .. Len(DEFAULT_PALETTE.stroke.light)) |-> Token(h[1], h[2])]

\* reading a token back: its kind and index
ParseToken ==
    [c \in {Tokens[h] : h \in DOMAIN Tokens} |->
        CHOOSE h \in DOMAIN Tokens : Tokens[h] = c]

----------------------------------------------------------------------------
(* The drawing controller's side (static/drawing-canvas.js)                 *)

\* resolveColor(color, theme): a palette token resolves to the theme's swatch
\* at its index (index 0 when the index is out of range); any other string
\* (a hex colour of a picker or of the highlighter row) is returned as it is.
resolveColor(color, th) ==
    IF color \in DOMAIN ParseToken
    THEN LET h    == ParseToken[color]
             list == DEFAULT_PALETTE[h[1]][th]
             i    == IF h[2] + 1 <= Len(list) THEN h[2] + 1 ELSE 1
         IN  list[i][1]
    ELSE color

\* controller.setStyleProperty(name, value) reports the new value through
\* onStateChange
setStyleProperty(name, value) == name :> value

\* controller.switchTool(t) reports the new tool through onStateChange
switchTool(t) == "tool" :> t

----------------------------------------------------------------------------
(* DrawingCanvas: the element script                                        *)

\* const signalPrefix = el.getAttribute('signal') ?? 'drawing'
\* (el.signal is <<>> when the attribute is absent, <<value>> otherwise)
signalPrefix == IF el.signal = <<>> THEN "drawing" ELSE el.signal[1]

\* signalPrefix + '_' + key
Key(key) == signalPrefix \o "_" \o key

\* the loop of onStateChange without its Local write
LocalWrites_absent(p) == <<>>

\* for (const [key, value] of Object.entries(patch))
\*     try { sp['$$' + key] = value; } catch(e) {}
\* an assignment to a name that is no Local cell throws and is swallowed
LocalWrites(p) ==
    [k \in (DOMAIN p) \cap (DOMAIN _SIGNALS) |-> p[k]]

\* const th = patch.theme ?? sp['$$theme'] ?? 'light' (read after the loop)
PatchTheme(p, cells) ==
    IF "theme" \in DOMAIN p THEN p["theme"] ELSE cells["theme"]

\* a fill branch that resolves the token only while fill is enabled
LocalCss_fill_needs_enabled(p, cells) ==
    LET th == IF "theme" \in DOMAIN p THEN p["theme"] ELSE cells["theme"]
        sc == IF "stroke_color" \in DOMAIN p
              THEN "stroke_color_css" :> resolveColor(p["stroke_color"], th)
              ELSE <<>>
        fc == IF "fill_color" \in DOMAIN p
              THEN "fill_color_css" :>
                     (IF p["fill_color"] # "" /\ cells["fill_enabled"]
                      THEN resolveColor(p["fill_color"], th) ELSE "")
              ELSE <<>>
    IN  [k \in (DOMAIN sc) \cup (DOMAIN fc) |-> IF k \in DOMAIN sc THEN sc[k] ELSE fc[k]]

\* the two "try { sp['$$..._css'] = css; }" writes of the token branches
LocalCss(p, cells) ==
    LET th == PatchTheme(p, cells)
        sc == IF "stroke_color" \in DOMAIN p
              THEN "stroke_color_css" :> resolveColor(p["stroke_color"], th)
              ELSE <<>>
        fc == IF "fill_color" \in DOMAIN p
              THEN "fill_color_css" :>
                     (IF p["fill_color"] # "" THEN resolveColor(p["fill_color"], th) ELSE "")
              ELSE <<>>
    IN  Merge(sc, fc)

\* the Local cells after onStateChange(patch)
LocalAfter(p, cells) == Merge(Merge(cells, LocalWrites(p)), LocalCss(p, cells))

\* onStateChange without its "if ('theme' in patch)" branch
ThemeCss_absent(p, cells) == <<>>

\* a theme branch that publishes the resolved stroke colour under the token's
\* own name as well
ThemeCss_overwrites_token(p, cells) ==
    IF "theme" \in DOMAIN p
    THEN LET th == IF "theme" \in DOMAIN p THEN p["theme"] ELSE cells["theme"]
             sc == IF "stroke_color" \in DOMAIN p THEN p["stroke_color"]
                   ELSE cells["stroke_color"]
             fc == IF "fill_color" \in DOMAIN p THEN p["fill_color"]
                   ELSE cells["fill_color"]
         IN  ("stroke_color" :> resolveColor(sc, th)) @@
             ("stroke_color_css" :> resolveColor(sc, th)) @@
             ("fill_color_css" :> (IF fc # "" THEN resolveColor(fc, th) ELSE ""))
    ELSE <<>>

\* "if ('theme' in patch)": the resolved colours of the current tokens, placed
\* in globalPatch only
ThemeCss(p, cells) ==
    IF "theme" \in DOMAIN p
    THEN LET th  == PatchTheme(p, cells)
             cur == LocalAfter(p, cells)
             sc  == IF "stroke_color" \in DOMAIN p THEN p["stroke_color"]
                    ELSE cur["stroke_color"]
             fc  == IF "fill_color" \in DOMAIN p THEN p["fill_color"]
                    ELSE cur["fill_color"]
         IN  ("stroke_color_css" :> resolveColor(sc, th)) @@
             ("fill_color_css" :> (IF fc # "" THEN resolveColor(fc, th) ELSE ""))
    ELSE <<>>

\* globalPatch as handed to datastar.mergePatch, by cell name
GlobalCells(p, cells) == Merge(Merge(p, LocalCss(p, cells)), ThemeCss(p, cells))

\* globalPatch keyed by the bare cell name: globalPatch[key] = value
globalPatch_unprefixed(p, cells) == GlobalCells(p, cells)

\* globalPatch[signalPrefix + '_' + key] = value
globalPatch(p, cells) ==
    LET g == GlobalCells(p, cells)
    IN  [sk \in {Key(k) : k \in DOMAIN g} |->
            g[CHOOSE k \in DOMAIN g : Key(k) = sk]]

\* onStateChange: (patch) => { ...; datastar.mergePatch(globalPatch); }
onStateChange(p) ==
    /\ patch' = p
    /\ sp' = LocalAfter(p, sp)
    /\ shared' = Merge(shared, globalPatch(p, sp))
    /\ merged' = globalPatch(p, sp)
    /\ raised' = FALSE

\* onStateChange when datastar.mergePatch(globalPatch) throws: the call stands
\* outside every try block, so the Local writes are done, the namespace is
\* left as it was and the exception leaves onStateChange
onStateChange_rejected(p) ==
    /\ patch' = p
    /\ sp' = LocalAfter(p, sp)
    /\ merged' = globalPatch(p, sp)
    /\ shared' = shared
    /\ raised' = TRUE

----------------------------------------------------------------------------
(* Inputs                                                                   *)

Opt(k, V) == {<<>>} \cup {k :> v : v \in V}

StrokeValues == {Token("stroke", 0), Token("stroke", MaxIndex), "#ffff00"}

FillValues == {"", Token("fill", MaxIndex)}

\* every combination of theme, stroke_color and fill_color
ColourPatches ==
    {a @@ b @@ c : a \in Opt("theme", Themes),
                   b \in Opt("stroke_color", StrokeValues),
                   c \in Opt("fill_color", FillValues)} \ {<<>>}

EnabledPatches == {"fill_enabled" :> b : b \in BOOLEAN}

\* a key that names no cell, alone and next to a known key
UnknownPatches ==
    {("layer_count" :> 1) @@ a : a \in Opt("theme", Themes)}

ToolPatches == {switchTool(t) : t \in ToolIds}

SyncPatches == ColourPatches \cup EnabledPatches \cup UnknownPatches

----------------------------------------------------------------------------
(* Initial state                                                            *)

\* the toolbar signals as one record
Signals ==
    [style_open |-> style_open, color_open |-> color_open, file_open |-> file_open,
     text_seen |-> text_seen, arrow_seen |-> arrow_seen]

NoEvent ==
    [op |-> "none", tid |-> "",
     pre |-> [style_open |-> FALSE, color_open |-> FALSE, file_open |-> FALSE,
              text_seen |-> FALSE, arrow_seen |-> FALSE]]

Event(op, tid) == [op |-> op, tid |-> tid, pre |-> Signals]

\* the page holds one <drawing-canvas> only
NoPeer == [signal |-> <<>>, sp |-> <<>>, patch |-> <<>>]

\* drawing_toolbar has not been called
NoConfig == <<>>

\* palette_json has not been called
NoCall == <<>>

\* nothing has happened yet: no patch, no toolbar call, popovers closed
Idle ==
    /\ patch = <<>>
    /\ merged = <<>>
    /\ raised = FALSE
    /\ config = NoConfig
    /\ bar_items = <<>>
    /\ encoded = NoCall
    /\ style_open = FALSE
    /\ color_open = FALSE
    /\ file_open = FALSE
    /\ text_seen = FALSE
    /\ arrow_seen = FALSE
    /\ clicked = {}
    /\ save_enabled = TRUE
    /\ pending = 0
    /\ downloaded = <<>>
    /\ saves = 0
    /\ input_value = ""
    /\ reading = <<>>
    /\ chosen = <<>>
    /\ imported = <<>>
    /\ last = NoEvent

Init ==
    /\ el \in {[signal |-> <<>>], [signal |-> <<"board">>]}
    /\ sp = _SIGNALS
    /\ shared = [sk \in {Key(k) : k \in DOMAIN _SIGNALS} |->
                    _SIGNALS[CHOOSE k \in DOMAIN _SIGNALS : Key(k) = sk]]
    /\ peer = NoPeer
    /\ Idle

----------------------------------------------------------------------------
(* The controller pushes a state patch                                      *)

ControllerPatch(p) ==
    /\ onStateChange(p)
    /\ UNCHANGED <<file_vars, el, peer, composer_vars, toolbar_vars, last>>

SyncNext == \E p \in SyncPatches : ControllerPatch(p)

SpecSync == Init /\ [][SyncNext]_vars

\* the same push while the shared namespace rejects the merge
RejectedPatch(p) ==
    /\ onStateChange_rejected(p)
    /\ UNCHANGED <<file_vars, el, peer, composer_vars, toolbar_vars, last>>

\* single-key patches of theme and of the stroke colour
RejectPatches ==
    {"theme" :> th : th \in Themes} \cup {"stroke_color" :> c : c \in StrokeValues}

RejectNext ==
    \/ \E p \in RejectPatches : ControllerPatch(p)
    \/ \E p \in RejectPatches : RejectedPatch(p)

\* a page whose shared namespace may reject a merge
SpecReject == Init /\ [][RejectNext]_vars

----------------------------------------------------------------------------
(* Two <drawing-canvas> elements on one page                                *)

\* the second element's signalPrefix (line 206 run by that element)
peerPrefix == IF peer.signal = <<>> THEN "drawing" ELSE peer.signal[1]

PeerKey(key) == peerPrefix \o "_" \o key

\* the second element's globalPatch
peerGlobalPatch(p, cells) ==
    LET g == GlobalCells(p, cells)
    IN  [sk \in {PeerKey(k) : k \in DOMAIN g} |->
            g[CHOOSE k \in DOMAIN g : PeerKey(k) = sk]]

\* onStateChange of the second element: its own Local cells, the one
\* datastar namespace of the page
PeerPatch(p) ==
    /\ peer' = [peer EXCEPT !.sp = LocalAfter(p, peer.sp), !.patch = p]
    /\ shared' = Merge(shared, peerGlobalPatch(p, peer.sp))
    /\ merged' = peerGlobalPatch(p, peer.sp)
    /\ raised' = FALSE
    /\ UNCHANGED <<file_vars, el, sp, patch, composer_vars, toolbar_vars, last>>

\* the signal attribute of an element: absent, or a name
Attrs == {<<>>, <<"board">>}

PairPatches ==
    {"theme" :> th : th \in Themes} \cup {"layer_count" :> 1}

\* both elements mounted, each with its own Local cells
InitPair ==
    /\ el \in {[signal |-> a] : a \in Attrs}
    /\ peer \in {[signal |-> a, sp |-> _SIGNALS, patch |-> <<>>] : a \in Attrs}
    /\ sp = _SIGNALS
    /\ shared = [sk \in {Key(k) : k \in DOMAIN _SIGNALS}
                        \cup {PeerKey(k) : k \in DOMAIN _SIGNALS} |->
                    _SIGNALS[CHOOSE k \in DOMAIN _SIGNALS :
                                 Key(k) = sk \/ PeerKey(k) = sk]]
    /\ Idle

PairNext ==
    \/ \E p \in PairPatches : ControllerPatch(p)
    \/ \E p \in PairPatches : PeerPatch(p)

SpecPair == InitPair /\ [][PairNext]_vars

----------------------------------------------------------------------------
(* drawing_toolbar: the click handlers                                      *)

\* tools whose first button click opens the style popover
RevealOnce == {"arrow", "text"}

\* style_actions with the reveal left out: seen is set, the popover stays shut
style_actions_never_opens(tid) ==
    IF tid = "arrow"
    THEN [style_open |-> FALSE, arrow_seen |-> TRUE, text_seen |-> text_seen]
    ELSE IF tid = "text"
    THEN [style_open |-> FALSE, arrow_seen |-> arrow_seen, text_seen |-> TRUE]
    ELSE [style_open |-> FALSE, arrow_seen |-> arrow_seen, text_seen |-> text_seen]

\* style_actions that open the popover on every arrow / text click
style_actions_always_opens(tid) ==
    IF tid = "arrow"
    THEN [style_open |-> TRUE, arrow_seen |-> TRUE, text_seen |-> text_seen]
    ELSE IF tid = "text"
    THEN [style_open |-> TRUE, arrow_seen |-> arrow_seen, text_seen |-> TRUE]
    ELSE [style_open |-> FALSE, arrow_seen |-> arrow_seen, text_seen |-> text_seen]

\* style_actions in which another tool's click starts the disclosure over
style_actions_resets_seen(tid) ==
    IF tid = "arrow"
    THEN [style_open |-> ~arrow_seen, arrow_seen |-> TRUE, text_seen |-> text_seen]
    ELSE IF tid = "text"
    THEN [style_open |-> ~text_seen, arrow_seen |-> arrow_seen, text_seen |-> TRUE]
    ELSE [style_open |-> FALSE, arrow_seen |-> FALSE, text_seen |-> FALSE]

\* style_actions without arrow_seen.set(True) / text_seen.set(True)
style_actions_forgets_seen(tid) ==
    IF tid = "arrow"
    THEN [style_open |-> ~arrow_seen, arrow_seen |-> arrow_seen, text_seen |-> text_seen]
    ELSE IF tid = "text"
    THEN [style_open |-> ~text_seen, arrow_seen |-> arrow_seen, text_seen |-> text_seen]
    ELSE [style_open |-> FALSE, arrow_seen |-> arrow_seen, text_seen |-> text_seen]

\* style_actions whose else branch is empty: the popover stays as it was
style_actions_keeps_open(tid) ==
    IF tid = "arrow"
    THEN [style_open |-> ~arrow_seen, arrow_seen |-> TRUE, text_seen |-> text_seen]
    ELSE IF tid = "text"
    THEN [style_open |-> ~text_seen, arrow_seen |-> arrow_seen, text_seen |-> TRUE]
    ELSE [style_open |-> style_open, arrow_seen |-> arrow_seen, text_seen |-> text_seen]

\* the style_actions of a tool button, as the values they leave:
\*   arrow: [style_open.set(~arrow_seen), arrow_seen.set(True)]
\*   text:  [style_open.set(~text_seen), text_seen.set(True)]
\*   else:  [style_open.set(False)]
style_actions(tid) ==
    IF tid = "arrow"
    THEN [style_open |-> ~arrow_seen, arrow_seen |-> TRUE, text_seen |-> text_seen]
    ELSE IF tid = "text"
    THEN [style_open |-> ~text_seen, arrow_seen |-> arrow_seen, text_seen |-> TRUE]
    ELSE [style_open |-> FALSE, arrow_seen |-> arrow_seen, text_seen |-> text_seen]

\* data_on_click=[canvas.switch_tool(tid), *style_actions, color_open.set(False)]
ToolClick(tid) ==
    /\ onStateChange(switchTool(tid))
    /\ style_open' = style_actions(tid).style_open
    /\ arrow_seen' = style_actions(tid).arrow_seen
    /\ text_seen' = style_actions(tid).text_seen
    /\ color_open' = FALSE
    /\ clicked' = clicked \cup ({tid} \cap RevealOnce)
    /\ last' = Event("tool", tid)
    /\ UNCHANGED <<file_vars, el, peer, composer_vars, file_open>>

\* [file_open.toggle(), color_open.set(False), style_open.set(False)]
file_trigger ==
    [file_open |-> ~file_open, color_open |-> FALSE, style_open |-> FALSE]

\* [color_open.toggle(), style_open.set(False), file_open.set(False)]
color_trigger ==
    [color_open |-> ~color_open, style_open |-> FALSE, file_open |-> FALSE]

\* the style trigger without file_open.set(False)
style_trigger_keeps_file ==
    [style_open |-> ~style_open, color_open |-> FALSE, file_open |-> file_open]

\* [style_open.toggle(), color_open.set(False), file_open.set(False)]
style_trigger ==
    [style_open |-> ~style_open, color_open |-> FALSE, file_open |-> FALSE]

\* an outside-click handler without file_open.set(False)
outside_click_keeps_file ==
    [color_open |-> FALSE, style_open |-> FALSE, file_open |-> file_open]

\* the island's outside-click handler
\* [color_open.set(False), style_open.set(False), file_open.set(False)]
outside_click ==
    [color_open |-> FALSE, style_open |-> FALSE, file_open |-> FALSE]

\* a handler that sets the three popover signals to the values of record r
SetPopovers(r, op) ==
    /\ style_open' = r.style_open
    /\ color_open' = r.color_open
    /\ file_open' = r.file_open
    /\ last' = Event(op, "")
    /\ UNCHANGED <<file_vars, el, peer, composer_vars, canvas_vars, text_seen, arrow_seen, clicked>>

FileTriggerClick == SetPopovers(file_trigger, "file_trigger")

ColorTriggerClick == SetPopovers(color_trigger, "color_trigger")

StyleTriggerClick == SetPopovers(style_trigger, "style_trigger")

OutsideClick == SetPopovers(outside_click, "outside")

\* the "Open SVG" label: data_on_click=file_open.set(False)
OpenSvgClick ==
    /\ file_open' = FALSE
    /\ last' = Event("open_svg", "")
    /\ UNCHANGED <<file_vars, el, peer, composer_vars, canvas_vars, style_open, color_open,
                   text_seen, arrow_seen, clicked>>

\* patches the controller pushes while the toolbar is in use: a tool change
\* (the configured default tool, a shortcut) and a theme change
ToolbarPatches ==
    ToolPatches \cup {"theme" :> th : th \in Themes}

Next ==
    \/ \E tid \in ToolIds : ToolClick(tid)
    \/ FileTriggerClick
    \/ ColorTriggerClick
    \/ StyleTriggerClick
    \/ OutsideClick
    \/ OpenSvgClick
    \/ \E p \in ToolbarPatches : ControllerPatch(p)

\* one toolbar bound to one canvas that has no signal attribute
InitToolbar == Init /\ el.signal = <<>>

Spec == InitToolbar /\ [][Next]_vars

----------------------------------------------------------------------------
(* drawing_toolbar: the style panel                                         *)

\* tool = canvas.tool, dash_length = canvas.dash_length, ...: the toolbar
\* reads a canvas signal under the canvas name, <prefix>_<cell>
Cell(k) == shared[Key(k)]

\* is_text_ctx = (tool == "text") | text_editing | selected_is_text
is_text_ctx ==
    Cell("tool") = "text" \/ Cell("text_editing") \/ Cell("selected_is_text")

\* has_stroke_style with the highlighter test left out
has_stroke_style_counts_highlighter ==
    Cell("tool") # "pen" /\ Cell("tool") # "eraser"

\* has_stroke_style = (tool != "pen") & (tool != "highlighter") & (tool != "eraser")
has_stroke_style ==
    Cell("tool") # "pen" /\ Cell("tool") # "highlighter" /\ Cell("tool") # "eraser"

\* a show_width that looks at the tool only
show_width_tool_only == Cell("tool") # "text"

\* show_width = ~is_text_ctx
show_width == ~is_text_ctx

\* show_stroke = has_stroke_style & ~is_text_ctx
show_stroke == has_stroke_style /\ ~is_text_ctx

\* the "Stroke" section: _panel_section("Stroke", ..., show=show_stroke)
stroke_section_shown == show_stroke

\* the "Width" section: _panel_section("Width", ..., show=show_width)
width_section_shown == show_width

\* the Font / Size / Align block: Div(..., data_show=is_text_ctx)
text_block_shown == is_text_ctx

\* dash_length and dash_gap are floats; the finest step any control writes is
\* the Dot spacing slider's step="0.5", so the cells hold their value counted
\* in such steps
StepsPerUnit == 2

\* the number n as the dash cells hold it
Num(n) == n * StepsPerUnit

\* data_class_selected of the Solid button
solid_selected == Cell("dash_length") = 0 /\ Cell("dash_gap") = 0

\* a Dashed button that lights up only above length 1
dashed_selected_above_one == Cell("dash_length") > Num(1)

\* data_class_selected of the Dashed button
dashed_selected == Cell("dash_length") >= Num(1)

\* data_class_selected of the Dotted button
dotted_selected == Cell("dash_length") < Num(1) /\ Cell("dash_gap") > 0

DashPresets == {"solid", "dashed", "dotted"}

\* which preset buttons carry the selected class
PresetSelected ==
    [x \in DashPresets |->
        IF x = "solid" THEN solid_selected
        ELSE IF x = "dashed" THEN dashed_selected
        ELSE dotted_selected]

\* dash lengths and dot gaps the controller may hold as "last or default":
\* the least length that counts as dashed and the ends of the slider ranges
DashSizes == {Num(1), Num(2), Num(12)}

DotSpacings == {Num(2), Num(12)}

\* controller.setDashPreset(name): the compound write the controller reports
\* through onStateChange; <last or default> is any of the values above
setDashPreset(name) ==
    IF name = "solid" THEN {("dash_length" :> 0) @@ ("dash_gap" :> 0)}
    ELSE IF name = "dashed"
    THEN {("dash_length" :> n) @@ ("dash_gap" :> 0) : n \in DashSizes}
    ELSE {("dash_length" :> 0) @@ ("dash_gap" :> g) : g \in DotSpacings}

\* data_on_click=canvas.set_dash_preset(x)
DashPresetClick(x) ==
    /\ \E p \in setDashPreset(x) : onStateChange(p)
    /\ last' = Event("dash_preset", x)
    /\ UNCHANGED <<file_vars, el, peer, composer_vars, toolbar_vars>>

\* a "Dot spacing" slider shown whenever there is a gap
dot_spacing_shown_by_gap == show_stroke /\ Cell("dash_gap") > 0

\* _labeled_slider("Dash size", ..., show=show_stroke & (dash_length >= 1))
dash_size_shown == show_stroke /\ Cell("dash_length") >= Num(1)

\* _labeled_slider("Dot spacing", ...,
\*                 show=show_stroke & (dash_length < 1) & (dash_gap > 0))
dot_spacing_shown ==
    show_stroke /\ Cell("dash_length") < Num(1) /\ Cell("dash_gap") > 0

\* values of the "Dash size" slider (min 2, max 12, step 1): both ends and
\* the first step
DashSizeSteps == {Num(2), Num(3), Num(12)}

\* values of the "Dot spacing" slider (min 2, max 12, step 0.5): both ends
\* and the first step, 2.5
DotSpacingSteps == {Num(2), Num(2) + 1, Num(12)}

\* on_input=canvas.set_style_property("dash_length", evt.target.value); the
\* write is taken in any state, also one that hides the slider
DashSizeInput(v) ==
    /\ \E p \in {setStyleProperty("dash_length", v)} : onStateChange(p)
    /\ last' = Event("dash_size", ToString(v))
    /\ UNCHANGED <<file_vars, el, peer, composer_vars, toolbar_vars>>

\* on_input=canvas.set_style_property("dash_gap", evt.target.value)
DotSpacingInput(v) ==
    /\ \E p \in {setStyleProperty("dash_gap", v)} : onStateChange(p)
    /\ last' = Event("dot_spacing", ToString(v))
    /\ UNCHANGED <<file_vars, el, peer, composer_vars, toolbar_vars>>

\* what the controller reports while the user draws and selects: the tool,
\* text editing, a text selection, the dash pattern of a selected element
StylePatches ==
    ToolPatches
        \cup {"text_editing" :> b : b \in BOOLEAN}
        \cup {"selected_is_text" :> b : b \in BOOLEAN}
        \cup {("dash_length" :> Num(4)) @@ ("dash_gap" :> Num(4))}

StylePatch(p) ==
    /\ onStateChange(p)
    /\ last' = Event("patch", "")
    /\ UNCHANGED <<file_vars, el, peer, composer_vars, toolbar_vars>>

StyleNext ==
    \/ \E x \in DashPresets : DashPresetClick(x)
    \/ \E v \in DashSizeSteps : DashSizeInput(v)
    \/ \E v \in DotSpacingSteps : DotSpacingInput(v)
    \/ \E p \in StylePatches : StylePatch(p)

SpecStyle == InitToolbar /\ [][StyleNext]_vars

----------------------------------------------------------------------------
(* drawing_toolbar: building bar_items                                      *)

\* the items of the bar: what was appended, and for a tool button which tool
Item(kind, id) == [kind |-> kind, id |-> id]

\* _divider()
Divider == Item("divider", "")

\* groups = tool_groups or TOOL_GROUPS (None and the empty list give the default)
Groups(c) == IF c.tool_groups = <<>> THEN TOOL_GROUPS ELSE c.tool_groups

\* tool_set = set(tools)
tool_set(c) == {c.tools[i] : i \in DOMAIN c.tools}

\* the inner loop: a button for every (tid, tip) of the group with tid in tool_set
RECURSIVE btns(_, _)
btns(group, c) ==
    IF group = <<>> THEN <<>>
    ELSE (IF Head(group)[1] \in tool_set(c)
          THEN <<Item("tool", Head(group)[1])>> ELSE <<>>)
         \o btns(Tail(group), c)

\* the group loop that renders every declared tool, requested or not
RECURSIVE tool_loop_unfiltered(_, _, _)
tool_loop_unfiltered(items, gs, c) ==
    IF gs = <<>> THEN items
    ELSE LET b == [i \in DOMAIN Head(gs) |-> Item("tool", Head(gs)[i][1])]
         IN  tool_loop_unfiltered(
                 IF b = <<>> THEN items
                 ELSE (IF items # <<>> THEN Append(items, Divider) ELSE items) \o b,
                 Tail(gs), c)

\* for group in groups: ...
\*     if btns:
\*         if bar_items: bar_items.append(_divider())
\*         bar_items.extend(btns)
RECURSIVE tool_loop(_, _, _)
tool_loop(items, gs, c) ==
    IF gs = <<>> THEN items
    ELSE LET b == btns(Head(gs), c)
         IN  tool_loop(
                 IF b = <<>> THEN items
                 ELSE (IF items # <<>> THEN Append(items, Divider) ELSE items) \o b,
                 Tail(gs), c)

\* a _swatch_grid without token_prefix: value = c, the swatch's own colour
swatch_values_raw(swatches, kind) ==
    [n \in DOMAIN swatches |-> swatches[n][1]]

\* _swatch_grid: the value each swatch button writes and matches,
\* value = f"{token_prefix}{i}" (every grid of the colour panel that shows
\* palette swatches passes a token_prefix; kind is "stroke" or "fill")
swatch_values(swatches, kind) ==
    [n \in DOMAIN swatches |-> Token(kind, n - 1)]

\* pal = palette or DEFAULT_PALETTE (None and an empty dict give the default)
pal(c) == IF c.palette = <<>> THEN DEFAULT_PALETTE ELSE c.palette

\* the four swatch grids of the colour panel: colors, dark_colors, fills,
\* dark_fills, each through _swatch_grid
color_panel(c) ==
    [kind \in Kinds |->
        [th \in Themes |-> swatch_values(pal(c)[kind][th], kind)]]

\* a drawing_toolbar whose style popover sits inside "if show_colors:"
drawing_toolbar_styles_need_colors(c) ==
    LET file   == IF c.show_file_actions THEN <<Item("file_menu", "")>> ELSE <<>>
        tools  == tool_loop(file, Groups(c), c)
        undo   == IF c.show_undo
                  THEN tools \o <<Divider, Item("undo", ""), Item("redo", ""),
                                  Item("clear", "")>>
                  ELSE tools
    IN  IF c.show_colors
        THEN (undo \o <<Divider, Item("color_popover", "")>>)
                 \o (IF c.show_styles THEN <<Item("style_popover", "")>> ELSE <<>>)
        ELSE undo

\* bar_items as drawing_toolbar(canvas, **c) builds it
drawing_toolbar(c) ==
    LET file   == IF c.show_file_actions THEN <<Item("file_menu", "")>> ELSE <<>>
        tools  == tool_loop(file, Groups(c), c)
        undo   == IF c.show_undo
                  THEN tools \o <<Divider, Item("undo", ""), Item("redo", ""),
                                  Item("clear", "")>>
                  ELSE tools
        colors == IF c.show_colors
                  THEN undo \o <<Divider, Item("color_popover", "")>>
                  ELSE undo
    IN  IF c.show_styles THEN Append(colors, Item("style_popover", "")) ELSE colors

\* the longest tools tuple drawn freely from the tool ids
MaxTools == 2

RECURSIVE TuplesUpTo(_, _)
TuplesUpTo(S, n) ==
    IF n = 0 THEN {<<>>}
    ELSE LET shorter == TuplesUpTo(S, n - 1)
         IN  shorter \cup {Append(t, x) : t \in shorter, x \in S}

\* the default of the tools parameter
DefaultTools ==
    <<"select", "pen", "highlighter", "line", "arrow", "rect", "ellipse",
      "diamond", "text", "eraser">>

\* tools=("pen", "highlighter", "eraser") of annotation_toolbar,
\* tools=("select", "line", ...) of diagram_toolbar, the tuple of the tests
PresetTools ==
    {DefaultTools,
     <<"pen", "highlighter", "eraser">>,
     <<"select", "line", "arrow", "rect", "ellipse", "diamond", "text">>,
     <<"pen", "line", "rect">>}

\* what a tools tuple may name: tools is tuple[str, ...], so the declared
\* ids and an id no group declares
ToolChoices == ToolIds \cup {"lasso"}

ToolsTuples == TuplesUpTo(ToolChoices, MaxTools) \cup PresetTools

\* a caller's own tool_groups: another order, an empty group in the middle
CustomGroups ==
    << << <<"rect", "Box">> >>,
       << >>,
       << <<"pen", "Draw">>, <<"text", "Type">> >> >>

Configs ==
    [tools : ToolsTuples, tool_groups : {<<>>, CustomGroups},
     show_colors : BOOLEAN, show_undo : BOOLEAN,
     show_file_actions : BOOLEAN, show_styles : BOOLEAN, palette : {<<>>}]

\* **kw of the preset toolbars: every keyword of drawing_toolbar but tools
Kwargs ==
    [tool_groups : {<<>>, CustomGroups},
     show_colors : BOOLEAN, show_undo : BOOLEAN,
     show_file_actions : BOOLEAN, show_styles : BOOLEAN, palette : {<<>>}]

\* the keyword arguments the preset hands on: tools=..., **kw
WithTools(kw, tools) == kw @@ [tools |-> tools]

\* a preset that forgets its tools and leaves the default tuple in force
annotation_toolbar_default_tools(kw) == drawing_toolbar(WithTools(kw, DefaultTools))

\* drawing_toolbar(canvas, tools=("pen", "highlighter", "eraser"), **kw)
annotation_toolbar(kw) ==
    drawing_toolbar(WithTools(kw, <<"pen", "highlighter", "eraser">>))

\* drawing_toolbar(canvas, tools=("select", "line", ..., "text"), **kw)
diagram_toolbar(kw) ==
    drawing_toolbar(WithTools(kw,
        <<"select", "line", "arrow", "rect", "ellipse", "diamond", "text">>))

\* a page render calls drawing_toolbar with keyword arguments c
Compose(c) ==
    /\ config = NoConfig
    /\ config' = c
    /\ bar_items' = drawing_toolbar(c)
    /\ UNCHANGED <<encoded, file_vars, el, peer, canvas_vars, toolbar_vars, last>>

\* a page render calls annotation_toolbar(canvas, **kw)
AnnotationToolbar(kw) ==
    /\ config = NoConfig
    /\ config' = WithTools(kw, <<"pen", "highlighter", "eraser">>)
    /\ bar_items' = annotation_toolbar(kw)
    /\ last' = Event("annotation_toolbar", "")
    /\ UNCHANGED <<encoded, file_vars, el, peer, canvas_vars, toolbar_vars>>

\* a page render calls diagram_toolbar(canvas, **kw)
DiagramToolbar(kw) ==
    /\ config = NoConfig
    /\ config' = WithTools(kw,
           <<"select", "line", "arrow", "rect", "ellipse", "diamond", "text">>)
    /\ bar_items' = diagram_toolbar(kw)
    /\ last' = Event("diagram_toolbar", "")
    /\ UNCHANGED <<encoded, file_vars, el, peer, canvas_vars, toolbar_vars>>

\* the page is left; the next render starts from nothing
Discard ==
    /\ config # NoConfig \/ encoded # NoCall
    /\ config' = NoConfig
    /\ bar_items' = <<>>
    /\ encoded' = NoCall
    /\ last' = NoEvent
    /\ UNCHANGED <<file_vars, el, peer, canvas_vars, toolbar_vars>>

ComposeNext ==
    \/ config = NoConfig /\ \E c \in Configs : Compose(c)
    \/ config = NoConfig /\ \E kw \in Kwargs : AnnotationToolbar(kw)
    \/ config = NoConfig /\ \E kw \in Kwargs : DiagramToolbar(kw)
    \/ Discard

SpecCompose == InitToolbar /\ [][ComposeNext]_vars

----------------------------------------------------------------------------
(* drawing_toolbar: the file menu                                           *)

MaxPending == 2

MaxSaves == 3

MaxFiles == 2

\* what controller.exportSvg() -> promise<string> can settle with: an SVG
\* string, a falsy value, or a rejection
Svgs == {"<svg>a</svg>", "<svg>b</svg>"}

ExportOutcomes ==
    {[kind |-> "fulfilled", svg |-> x] : x \in Svgs \cup {""}} \cup
    {[kind |-> "rejected", svg |-> ""]}

\* the files a user can pick: an SVG, a file that is no SVG, an empty file
Files ==
    {[name |-> "a.svg", text |-> "<svg>a</svg>"],
     [name |-> "notes.txt", text |-> "hello"],
     [name |-> "empty.svg", text |-> ""]}

\* a "Save SVG" handler that disables the button it was clicked on
save_click_disables(enabled) == FALSE

\* the "Save SVG" button after its click handler: the handler calls exportSvg
\* and file_open.set(False), and writes no disabled attribute
save_click(enabled) == enabled

\* a callback without "if (!svg) return;"
export_then_any(outcome, done) ==
    IF outcome.kind = "fulfilled" THEN Append(done, outcome.svg) ELSE done

\* ".then(svg => { if (!svg) return; ...; a.download = 'drawing.svg'; a.click(); ... })":
\* the downloads after the promise settled (a rejection runs no callback)
export_then(outcome, done) ==
    IF outcome.kind = "fulfilled" /\ outcome.svg # ""
    THEN Append(done, outcome.svg) ELSE done

\* a callback that forwards only texts that look like SVG
import_then_validated(text) ==
    IF Len(text) >= 4 /\ SubSeq(text, 1, 4) = "<svg" THEN <<text>> ELSE <<>>

\* ".then(text => { $canvas.importSvg(text); evt.target.value = '' })":
\* the importSvg calls of the callback
import_then(text) == <<text>>

\* a click on "Save SVG": [js("$canvas.exportSvg().then(...)"), file_open.set(False)]
SaveSvgClick ==
    /\ save_enabled
    /\ pending < MaxPending
    /\ saves < MaxSaves
    /\ pending' = pending + 1
    /\ saves' = saves + 1
    /\ save_enabled' = save_click(save_enabled)
    /\ file_open' = FALSE
    /\ last' = Event("save_svg", "")
    /\ UNCHANGED <<el, peer, composer_vars, canvas_vars, style_open, color_open,
                   text_seen, arrow_seen, clicked, downloaded, input_value,
                   reading, chosen, imported>>

\* an exportSvg promise settles
ExportSettles(outcome) ==
    /\ pending > 0
    /\ pending' = pending - 1
    /\ downloaded' = export_then(outcome, downloaded)
    /\ last' = Event("export_settled", outcome.kind)
    /\ UNCHANGED <<el, peer, composer_vars, canvas_vars, toolbar_vars, save_enabled, saves,
                   input_value, reading, chosen, imported>>

\* data_on_change with a file: "const file = evt.target.files[0]; ...
\* file.text().then(...)" (the browser fires change when the selection changes)
FileChosen(file) ==
    /\ Len(chosen) < MaxFiles
    /\ input_value # file.name
    /\ input_value' = file.name
    /\ reading' = Append(reading, file.text)
    /\ chosen' = Append(chosen, file.text)
    /\ last' = Event("change", file.name)
    /\ UNCHANGED <<el, peer, composer_vars, canvas_vars, toolbar_vars, save_enabled,
                   pending, downloaded, saves, imported>>

\* data_on_change without a file: "if (!file) return;"
ChangeWithoutFile ==
    /\ input_value # ""
    /\ input_value' = ""
    /\ last' = Event("change", "")
    /\ UNCHANGED <<el, peer, composer_vars, canvas_vars, toolbar_vars, save_enabled,
                   pending, downloaded, saves, reading, chosen, imported>>

\* the file.text() promise at position n is fulfilled and its callback runs
ReadDone(n) ==
    /\ n \in DOMAIN reading
    /\ imported' = imported \o import_then(reading[n])
    /\ input_value' = ""
    /\ reading' = SubSeq(reading, 1, n - 1) \o SubSeq(reading, n + 1, Len(reading))
    /\ last' = Event("import", "")
    /\ UNCHANGED <<el, peer, composer_vars, canvas_vars, toolbar_vars, save_enabled,
                   pending, downloaded, saves, chosen>>

FileNext ==
    \/ FileTriggerClick
    \/ OpenSvgClick
    \/ SaveSvgClick
    \/ \E outcome \in ExportOutcomes : ExportSettles(outcome)
    \/ \E file \in Files : FileChosen(file)
    \/ ChangeWithoutFile
    \/ \E n \in 1 .. MaxFiles : ReadDone(n)

SpecFile == InitToolbar /\ [][FileNext]_vars

----------------------------------------------------------------------------
(* drawing_toolbar: the colour panel                                        *)

\* two controller calls of one click handler, each reported on its own
TwoPatches(p1, p2) ==
    \E sp1 \in {LocalAfter(p1, sp)}, sh1 \in {Merge(shared, globalPatch(p1, sp))} :
        /\ patch' = p2
        /\ sp' = LocalAfter(p2, sp1)
        /\ merged' = globalPatch(p2, sp1)
        /\ shared' = Merge(sh1, merged')
        /\ raised' = FALSE

\* the toolbar of the page: drawing_toolbar(canvas) with its defaults
DefaultConfig ==
    [tools |-> DefaultTools, tool_groups |-> <<>>, show_colors |-> TRUE,
     show_undo |-> TRUE, show_file_actions |-> TRUE, show_styles |-> TRUE,
     palette |-> <<>>]

\* the colour panel of that toolbar
Grids == color_panel(DefaultConfig)

\* the swatch values of the grid of this kind shown under theme th
Grid(kind, th) == Grids[kind][th]

\* positions of the swatches that get clicked
Swatches == 1 .. (MaxIndex + 1)

\* stroke_sel(c) = (stroke_color == c)
stroke_sel(c) == Cell("stroke_color") = c

\* a fill_sel that compares the colour only
fill_sel_ignores_enabled(c) == Cell("fill_color") = c

\* data_class_selected=~fill_enabled of the "No fill" button
no_fill_selected == ~Cell("fill_enabled")

\* fill_sel(c) = (fill_color == c) & fill_enabled
fill_sel(c) == Cell("fill_color") = c /\ Cell("fill_enabled")

\* a click on swatch n of the stroke grid shown under theme th
\* (data_show = theme == th): on_click = stroke_click(value)
StrokeSwatchClick(th, n) ==
    /\ Cell("theme") = th
    /\ \E value \in {Grid("stroke", th)[n]} :
           \E p \in {setStyleProperty("stroke_color", value)} : onStateChange(p)
    /\ last' = Event("stroke_swatch", ToString(n - 1))
    /\ UNCHANGED <<file_vars, el, peer, composer_vars, toolbar_vars>>

\* a click on swatch n of the fill grid: fill_click(value) =
\* [set_style_property("fill_color", value), set_style_property("fill_enabled", True)]
FillSwatchClick(th, n) ==
    /\ Cell("theme") = th
    /\ \E value \in {Grid("fill", th)[n]} :
           \E p1 \in {setStyleProperty("fill_color", value)},
              p2 \in {setStyleProperty("fill_enabled", TRUE)} : TwoPatches(p1, p2)
    /\ last' = Event("fill_swatch", ToString(n - 1))
    /\ UNCHANGED <<file_vars, el, peer, composer_vars, toolbar_vars>>

\* the "No fill" button:
\* [set_style_property("fill_enabled", False), set_style_property("fill_color", "")]
NoFillClick ==
    /\ \E p1 \in {setStyleProperty("fill_enabled", FALSE)},
          p2 \in {setStyleProperty("fill_color", "")} : TwoPatches(p1, p2)
    /\ last' = Event("no_fill", "")
    /\ UNCHANGED <<file_vars, el, peer, composer_vars, toolbar_vars>>

\* the controller reports fill_enabled on its own (the fill of a selected
\* element, an undo)
FillEnabledPatch(p) ==
    /\ onStateChange(p)
    /\ last' = Event("patch", "")
    /\ UNCHANGED <<file_vars, el, peer, composer_vars, toolbar_vars>>

ColorsNext ==
    \/ \E th \in Themes, n \in Swatches : StrokeSwatchClick(th, n)
    \/ \E th \in Themes, n \in Swatches : FillSwatchClick(th, n)
    \/ NoFillClick
    \/ \E th \in Themes : ControllerPatch("theme" :> th)
    \/ \E p \in EnabledPatches : FillEnabledPatch(p)

SpecColors == InitToolbar /\ [][ColorsNext]_vars

----------------------------------------------------------------------------
(* palette_json and palette overrides                                       *)

\* a JSON text as the sequence of its lexical tokens: the punctuation marks
\* and the string literals in their quotes
Quote(str) == "\"" \o str \o "\""

Unquote(tok) == SubSeq(tok, 2, Len(tok) - 1)

\* the order in which kinds and themes are written: the order of the dict
KindOrder == <<"stroke", "fill">>

ThemeOrder == <<"light", "dark">>

\* a comprehension that keeps the display name instead of the colour
strip_names_keeps_names(swatches) == [n \in DOMAIN swatches |-> swatches[n][2]]

\* [c for c, _ in swatches]
strip_names(swatches) == [n \in DOMAIN swatches |-> swatches[n][1]]

\* json.dumps of a list of strings
RECURSIVE dumps_items(_)
dumps_items(list) ==
    IF list = <<>> THEN <<>>
    ELSE IF Len(list) = 1 THEN <<Quote(list[1])>>
    ELSE <<Quote(list[1]), ",">> \o dumps_items(Tail(list))

dumps_list(list) == <<"[">> \o dumps_items(list) \o <<"]">>

\* json.dumps of {theme: [...], ...} for the themes named in order
RECURSIVE dumps_themes(_, _)
dumps_themes(themes, order) ==
    IF order = <<>> THEN <<>>
    ELSE <<Quote(Head(order)), ":">> \o dumps_list(strip_names(themes[Head(order)]))
         \o (IF Len(order) > 1 THEN <<",">> ELSE <<>>)
         \o dumps_themes(themes, Tail(order))

RECURSIVE dumps_kinds(_, _)
dumps_kinds(palette, order) ==
    IF order = <<>> THEN <<>>
    ELSE <<Quote(Head(order)), ":", "{">>
         \o dumps_themes(palette[Head(order)], ThemeOrder) \o <<"}">>
         \o (IF Len(order) > 1 THEN <<",">> ELSE <<>>)
         \o dumps_kinds(palette, Tail(order))

\* palette_json(palette): the names stripped, the rest serialized
palette_json(palette) == <<"{">> \o dumps_kinds(palette, KindOrder) \o <<"}">>

\* json.loads, for a text of this shape; each parser returns the value it
\* read and the tokens after it
RECURSIVE loads_items(_, _)
loads_items(toks, acc) ==
    IF Head(toks) = "]" THEN [val |-> acc, rest |-> Tail(toks)]
    ELSE IF Head(toks) = "," THEN loads_items(Tail(toks), acc)
    ELSE loads_items(Tail(toks), Append(acc, Unquote(Head(toks))))

\* toks starts with "["
loads_list(toks) == loads_items(Tail(toks), <<>>)

\* the members of an object whose values are lists, up to its "}"
RECURSIVE loads_themes(_, _)
loads_themes(toks, acc) ==
    IF Head(toks) = "}" THEN [val |-> acc, rest |-> Tail(toks)]
    ELSE IF Head(toks) = "," THEN loads_themes(Tail(toks), acc)
    ELSE LET v == loads_list(Tail(Tail(toks)))
         IN  loads_themes(v.rest, (Unquote(Head(toks)) :> v.val) @@ acc)

\* the members of an object whose values are objects of lists
RECURSIVE loads_kinds(_, _)
loads_kinds(toks, acc) ==
    IF Head(toks) = "}" THEN [val |-> acc, rest |-> Tail(toks)]
    ELSE IF Head(toks) = "," THEN loads_kinds(Tail(toks), acc)
    ELSE LET v == loads_themes(Tail(Tail(Tail(toks))), <<>>)
         IN  loads_kinds(v.rest, (Unquote(Head(toks)) :> v.val) @@ acc)

\* json.loads(text)
loads(toks) == loads_kinds(Tail(toks), <<>>).val

\* the longest swatch list of a palette override
MaxSwatches == 2

\* swatches an override may use: a colour of its own and the first colour
\* of the default stroke palette
SwatchPool == {<<"#aaa", "A">>, DEFAULT_PALETTE.stroke.light[1]}

SwatchLists == TuplesUpTo(SwatchPool, MaxSwatches)

Palettes == [Kinds -> [Themes -> SwatchLists]]

\* the page hands its palette to the canvas: palette_json(p)
PaletteJson(p) ==
    /\ encoded' = [palette |-> p, json |-> palette_json(p)]
    /\ UNCHANGED <<config, bar_items, file_vars, el, peer, canvas_vars, toolbar_vars, last>>

\* drawing_toolbar(canvas, palette=p), every other keyword at its default
PaletteConfig(p) ==
    [tools |-> DefaultTools, tool_groups |-> <<>>, show_colors |-> TRUE,
     show_undo |-> TRUE, show_file_actions |-> TRUE, show_styles |-> TRUE,
     palette |-> p]

PaletteNext ==
    \/ encoded = NoCall /\ config = NoConfig /\ \E p \in Palettes : PaletteJson(p)
    \/ encoded = NoCall /\ config = NoConfig
           /\ \E p \in Palettes : Compose(PaletteConfig(p))
    \/ Discard

SpecPalette == InitToolbar /\ [][PaletteNext]_vars

----------------------------------------------------------------------------
(* Progressive disclosure and popovers (checked under Spec)                 *)

\* the seen flag of a reveal-once tool: "arrow_seen", "text_seen"
SeenName(tid) == tid \o "_seen"

\* the latest UI event was a click on the button of tool tid
Clicked(tid) == last.op = "tool" /\ last.tid = tid

\* C1: a click on the arrow (text) button made while that tool's seen flag is
\* false leaves style_open true and the seen flag true, whatever the three
\* popover signals were before the click.
C1_FirstClickOpensStyle ==
    \A tid \in RevealOnce :
        (Clicked(tid) /\ ~last.pre[SeenName(tid)])
            => (style_open /\ Signals[SeenName(tid)])

\* the first arrow click found the colour popover open and opened the style one
C1_Witness ==
    /\ Clicked("arrow")
    /\ ~last.pre.arrow_seen
    /\ last.pre.color_open
    /\ ~last.pre.style_open
    /\ style_open
    /\ arrow_seen

\* C2: a click on the arrow (text) button made while that tool's seen flag is
\* already true leaves style_open false: no automatic reopening.
C2_LaterClickDoesNotOpen ==
    \A tid \in RevealOnce :
        (Clicked(tid) /\ last.pre[SeenName(tid)]) => ~style_open

\* a second arrow click, made after the popover had been closed again
C2_Witness ==
    /\ Clicked("arrow")
    /\ last.pre.arrow_seen
    /\ ~last.pre.style_open
    /\ ~style_open
    /\ sp["tool"] = "arrow"

\* C3: once arrow_seen (text_seen) is true it is true in every later state,
\* whatever click, outside click, theme change or state patch comes next.
C3_SeenMonotone ==
    [][(arrow_seen => arrow_seen') /\ (text_seen => text_seen')]_vars

\* both flags survived a switch to another tool, a theme change and an
\* outside click
C3_Witness ==
    /\ arrow_seen
    /\ text_seen
    /\ last.op = "outside"
    /\ sp["theme"] = "dark"
    /\ sp["tool"] = "pen"

\* C4 as stated: in every state in which the tool cell is "arrow" ("text"),
\* arrow_seen (text_seen) is true, however the tool became active.
C4_ActiveImpliesSeen ==
    \A tid \in RevealOnce : sp["tool"] = tid => Signals[SeenName(tid)]

\* C4 as amended: arrow_seen (text_seen) is true exactly in the states reached
\* after a click on the arrow (text) toolbar button; a tool made active by a
\* controller patch or as the default tool leaves the flag as it was.
C4_SeenIffButtonClicked ==
    \A tid \in RevealOnce : Signals[SeenName(tid)] <=> tid \in clicked

\* arrow is the active tool through a patch, its button never clicked, while
\* the text button has been clicked
C4_Witness ==
    /\ sp["tool"] = "arrow"
    /\ patch = switchTool("arrow")
    /\ ~arrow_seen
    /\ "arrow" \notin clicked
    /\ text_seen
    /\ "text" \in clicked

\* C5: a click on the button of a tool other than arrow and text leaves
\* style_open false, also when it was true before, and both seen flags as
\* they were.
C5_OtherToolClosesStyle ==
    \A tid \in ToolIds \ RevealOnce :
        Clicked(tid) =>
            /\ ~style_open
            /\ arrow_seen = last.pre.arrow_seen
            /\ text_seen = last.pre.text_seen

\* the rect button was clicked while the style popover was open and arrow seen
C5_Witness ==
    /\ Clicked("rect")
    /\ last.pre.style_open
    /\ last.pre.arrow_seen
    /\ ~last.pre.text_seen
    /\ ~style_open
    /\ arrow_seen

\* C6: a click on the style (colour, file) trigger flips style_open
\* (color_open, file_open) and leaves the other two popover signals false,
\* whatever the seen flags and the tool are.
C6_TriggersToggle ==
    /\ last.op = "style_trigger" =>
           (style_open = ~last.pre.style_open /\ ~color_open /\ ~file_open)
    /\ last.op = "color_trigger" =>
           (color_open = ~last.pre.color_open /\ ~style_open /\ ~file_open)
    /\ last.op = "file_trigger" =>
           (file_open = ~last.pre.file_open /\ ~color_open /\ ~style_open)

\* the style popover reopened by hand with arrow active and already seen,
\* closing the file menu
C6_Witness ==
    /\ last.op = "style_trigger"
    /\ ~last.pre.style_open
    /\ last.pre.file_open
    /\ style_open
    /\ arrow_seen
    /\ sp["tool"] = "arrow"

\* C34: a click outside the toolbar island leaves file_open, color_open and
\* style_open false and changes nothing else: the seen flags, the tool, the
\* theme and every other cell, Local and shared, keep their values, and no
\* controller call reports a patch.
C34_OutsideClickOnlyClosesPopovers ==
    [][(last' # last /\ last'.op = "outside") =>
          /\ ~file_open' /\ ~color_open' /\ ~style_open'
          /\ UNCHANGED <<text_seen, arrow_seen, clicked, sp, shared, patch,
                         merged, raised, el, peer, composer_vars, file_vars>>]_vars

\* an outside click closed the style popover that the first arrow click had
\* opened; arrow is still the tool and still seen
C34_Witness ==
    /\ last.op = "outside"
    /\ last.pre.style_open
    /\ ~style_open /\ ~color_open /\ ~file_open
    /\ arrow_seen
    /\ Cell("tool") = "arrow"

----------------------------------------------------------------------------
(* The synchronizer (checked under SpecSync)                                *)

\* C7: in every reachable state the Local cell stroke_color_css equals
\* resolve(stroke_color, theme) and the Local cell fill_color_css equals
\* resolve(fill_color, theme), or the empty string when there is no fill
\* (no fill colour, or fill not enabled).
C7_DerivedCellsResolved ==
    /\ sp["stroke_color_css"] = resolveColor(sp["stroke_color"], sp["theme"])
    /\ \/ sp["fill_color_css"] =
              (IF sp["fill_color"] = "" THEN ""
               ELSE resolveColor(sp["fill_color"], sp["theme"]))
       \/ (~sp["fill_enabled"] /\ sp["fill_color_css"] = "")

\* the resolved colours the shared namespace must hold for its own tokens
SharedResolved(kind) ==
    LET c == shared[Key(kind \o "_color")]
    IN  IF kind = "fill" /\ c = "" THEN ""
        ELSE resolveColor(c, shared[Key("theme")])

\* C8: token, theme and resolved colour change together in the shared
\* namespace: in every state the shared <prefix>_stroke_color_css and
\* <prefix>_fill_color_css are the colours of the shared tokens under the
\* shared theme, so no state shows a new token or theme with an old colour.
C8_SharedColoursAtomic ==
    /\ shared[Key("stroke_color_css")] = SharedResolved("stroke")
    /\ shared[Key("fill_color_css")] = SharedResolved("fill")

\* a patch of theme alone went out while stroke and fill held tokens, and
\* the shared resolved colours are the dark swatches of those tokens
C8_Witness ==
    /\ patch = ("theme" :> "dark")
    /\ shared[Key("theme")] = "dark"
    /\ shared[Key("stroke_color")] = Token("stroke", MaxIndex)
    /\ shared[Key("stroke_color_css")] = DEFAULT_PALETTE.stroke.dark[MaxIndex + 1][1]
    /\ shared[Key("fill_color")] = Token("fill", MaxIndex)
    /\ shared[Key("fill_color_css")] = DEFAULT_PALETTE.fill.dark[MaxIndex + 1][1]

\* the cells a change of theme may touch
ThemeCells == {"theme", "stroke_color_css", "fill_color_css"}

\* C9: a patch whose only key is theme changes no Local cell and no shared
\* entry other than theme and the two resolved colours: stroke_color,
\* fill_color, fill_enabled and every other cell keep their values.
C9_ThemeAloneKeepsTokens ==
    [][\A th \in Themes :
          patch' = ("theme" :> th) =>
              /\ DOMAIN sp' = DOMAIN sp
              /\ \A k \in (DOMAIN sp) \ ThemeCells : sp'[k] = sp[k]
              /\ DOMAIN shared' = DOMAIN shared
              /\ \A sk \in (DOMAIN shared) \ {Key(k) : k \in ThemeCells} :
                     shared'[sk] = shared[sk]]_vars

\* theme alone was set to dark with fill enabled on a token: the tokens are
\* in place, locally and shared, and the shared stroke colour is the dark one
C9_Witness ==
    /\ patch = ("theme" :> "dark")
    /\ sp["theme"] = "dark"
    /\ sp["stroke_color"] = Token("stroke", MaxIndex)
    /\ sp["fill_color"] = Token("fill", MaxIndex)
    /\ sp["fill_enabled"]
    /\ shared[Key("stroke_color")] = Token("stroke", MaxIndex)
    /\ shared[Key("fill_enabled")]
    /\ shared[Key("stroke_color_css")] = DEFAULT_PALETTE.stroke.dark[MaxIndex + 1][1]

\* <instancePrefix>_<cellName>: the signal attribute, "drawing" when absent
MirrorKey(k) ==
    (IF Len(el.signal) = 0 THEN "drawing" ELSE el.signal[1]) \o "_" \o k

\* every name a patch or a cell can carry
PatchNames == (DOMAIN _SIGNALS) \cup UNION {DOMAIN p : p \in SyncPatches}

\* C10: after a patch is applied the shared namespace holds, for each key k
\* of the patch, the patched value at <prefix>_k, and every key of the shared
\* namespace is of that form: none is written without the prefix.
C10_PatchMirroredUnderPrefix ==
    /\ \A k \in DOMAIN patch :
           MirrorKey(k) \in DOMAIN shared /\ shared[MirrorKey(k)] = patch[k]
    /\ \A sk \in DOMAIN shared : \E k \in PatchNames : sk = MirrorKey(k)

\* an element with signal="board" applied a patch of theme and of a key that
\* names no cell
C10_Witness ==
    /\ el.signal = <<"board">>
    /\ DOMAIN patch = {"theme", "layer_count"}
    /\ "board_layer_count" \in DOMAIN shared
    /\ shared["board_layer_count"] = 1
    /\ shared["board_theme"] = "dark"

----------------------------------------------------------------------------
(* Publishing discipline of onStateChange (checked under SpecSync)          *)

\* C11: publishing is at most once per logical change: no key goes to
\* datastar.mergePatch with the value the shared namespace holds for it
\* already, so a patch applied a second time publishes nothing.
C11_PublishOncePerChange ==
    [][\A sk \in DOMAIN merged' :
          sk \in DOMAIN shared => shared[sk] # merged'[sk]]_vars

\* C12: the shared mirror never runs ahead of the Local cell: the shared
\* key <prefix>_k holds the value of the latest patch only if the Local cell
\* k holds it too, also when the Local write of k failed and was swallowed.
C12_SharedNeverAhead ==
    \A k \in DOMAIN patch :
        (Key(k) \in DOMAIN shared /\ shared[Key(k)] = patch[k])
            => (k \in DOMAIN sp /\ sp[k] = patch[k])

\* the shared namespace does not hold what the latest mergePatch call carried
Rejected ==
    \E sk \in DOMAIN merged : sk \notin DOMAIN shared \/ shared[sk] # merged[sk]

\* C13 (under SpecReject): when the shared namespace rejects the merged
\* patch, onStateChange does not raise to the controller and the Local
\* writes of that patch stay committed.
C13_PublishFailureSwallowed ==
    Rejected =>
        /\ ~raised
        /\ \A k \in (DOMAIN patch) \cap (DOMAIN _SIGNALS) : sp[k] = patch[k]

\* C14: a patch key that names no registered cell is ignored: it becomes
\* neither a Local cell nor an entry of the shared namespace, while the known
\* keys of the same patch are applied.
C14_UnknownKeysIgnored ==
    /\ \A k \in (DOMAIN patch) \ (DOMAIN _SIGNALS) :
           k \notin DOMAIN sp /\ Key(k) \notin DOMAIN shared
    /\ \A k \in (DOMAIN patch) \cap (DOMAIN _SIGNALS) : sp[k] = patch[k]

\* the shared keys the latest onStateChange call of each element wrote
Written == DOMAIN globalPatch(patch, sp)

PeerWritten == DOMAIN peerGlobalPatch(peer.patch, peer.sp)

\* C15 (under SpecPair): two elements mounted on one page never write the
\* same key of the shared namespace, whatever patches each of them applies.
C15_InstancesWriteDisjointKeys == Written \cap PeerWritten = {}

\* C16: write/read round trip: after a patch is applied, every registered
\* cell k the patch names reads the patched value.
C16_WriteReadRoundTrip ==
    \A k \in (DOMAIN patch) \cap (DOMAIN _SIGNALS) : sp[k] = patch[k]

\* a string, an empty string and a boolean came in and read back
C16_Witness ==
    /\ patch = ("stroke_color" :> "#ffff00") @@ ("fill_color" :> "")
    /\ sp["stroke_color"] = "#ffff00"
    /\ sp["fill_color"] = ""
    /\ sp["fill_enabled"] # _SIGNALS["fill_enabled"]

----------------------------------------------------------------------------
(* The style panel (checked under SpecStyle)                                *)

\* C17: after set_dash_preset(x), x one of solid, dashed, dotted, applied in
\* any state, exactly one of the three button predicates is true and it is
\* the one named x.
C17_OnePresetSelected ==
    \A x \in DashPresets :
        (last.op = "dash_preset" /\ last.tid = x)
            => \A y \in DashPresets : PresetSelected[y] <=> (y = x)

\* Dashed was clicked at the least dash length, the cells holding a dotted
\* pattern's gap no longer
C17_Witness ==
    /\ last.op = "dash_preset"
    /\ last.tid = "dashed"
    /\ Cell("dash_length") = Num(1)
    /\ Cell("dash_gap") = 0
    /\ dashed_selected

\* C20: the Stroke (dash preset) section is visible iff the tool is none of
\* pen, highlighter, eraser, text and neither text_editing nor
\* selected_is_text is true.
C20_StrokeSectionFollowsShowStroke ==
    stroke_section_shown <=>
        /\ Cell("tool") \notin {"pen", "highlighter", "eraser", "text"}
        /\ ~Cell("text_editing")
        /\ ~Cell("selected_is_text")

\* the highlighter is the tool, no text is edited or selected, and the
\* section is hidden
C20_Witness ==
    /\ Cell("tool") = "highlighter"
    /\ ~Cell("text_editing")
    /\ ~Cell("selected_is_text")
    /\ ~stroke_section_shown

----------------------------------------------------------------------------
(* The bar of drawing_toolbar (checked under SpecCompose)                   *)

\* drawing_toolbar has been called
Composed == config # NoConfig

\* the tool ids of the bar's tool buttons, in bar order
ToolButtonIds ==
    LET b == SelectSeq(bar_items, LAMBDA it : it.kind = "tool")
    IN  [i \in DOMAIN b |-> b[i].id]

\* the ids tool_groups declares, flattened in declared order
RECURSIVE Flatten(_)
Flatten(gs) ==
    IF gs = <<>> THEN <<>>
    ELSE [i \in DOMAIN Head(gs) |-> Head(gs)[i][1]] \o Flatten(Tail(gs))

Declared(c) == {Flatten(Groups(c))[i] : i \in DOMAIN Flatten(Groups(c))}

\* the groups of the call that render at least one button
RenderedGroups(c) ==
    {g \in DOMAIN Groups(c) :
        \E i \in DOMAIN Groups(c)[g] : Groups(c)[g][i][1] \in tool_set(c)}

\* positions of the dividers that stand between two tool buttons
ToolDividers ==
    {i \in 2 .. (Len(bar_items) - 1) :
        /\ bar_items[i] = Divider
        /\ bar_items[i - 1].kind = "tool"
        /\ bar_items[i + 1].kind = "tool"}

\* C18: for every configuration the first and the last item of the bar are
\* no divider, no two dividers are adjacent, and the dividers between tool
\* buttons separate exactly the groups that render at least one button.
C18_DividersWellPlaced ==
    (Composed /\ bar_items # <<>>) =>
        /\ bar_items[1] # Divider
        /\ bar_items[Len(bar_items)] # Divider
        /\ \A i \in 1 .. (Len(bar_items) - 1) :
               ~(bar_items[i] = Divider /\ bar_items[i + 1] = Divider)
        /\ Cardinality(ToolDividers) =
               (IF RenderedGroups(config) = {} THEN 0
                ELSE Cardinality(RenderedGroups(config)) - 1)

\* the bar from its first to its last tool button
ToolSection ==
    LET at == {i \in DOMAIN bar_items : bar_items[i].kind = "tool"}
    IN  IF at = {} THEN <<>>
        ELSE SubSeq(bar_items,
                    CHOOSE i \in at : \A j \in at : i <= j,
                    CHOOSE i \in at : \A j \in at : j <= i)

\* no other tool appears, none appears twice, the order is the declared
\* group order, and tools (pen, line, rect) give pen, line | rect
ButtonsInDeclaredOrder ==
    LET ids  == ToolButtonIds
        decl == Flatten(Groups(config))
        Pos(t) == CHOOSE n \in DOMAIN decl : decl[n] = t
    IN  /\ \A i \in DOMAIN ids : ids[i] \in tool_set(config)
        /\ \A i, j \in DOMAIN ids : i < j => Pos(ids[i]) < Pos(ids[j])
        /\ (config.tools = <<"pen", "line", "rect">> /\ config.tool_groups = <<>>)
               => ToolSection = <<Item("tool", "pen"), Item("tool", "line"),
                                  Divider, Item("tool", "rect")>>

----------------------------------------------------------------------------
(* Fill, popovers and the mirror                                            *)

\* the colour trigger's fill indicator: data_attr_style =
\* fill_enabled.if_("background-color:" + fill_color_css, "display:none")
fill_indicator ==
    IF Cell("fill_enabled") THEN "background-color:" \o Cell("fill_color_css")
    ELSE "display:none"

\* a patch that writes fill_color to a palette token and leaves fill_enabled alone
WritesFillToken(p) ==
    /\ "fill_color" \in DOMAIN p
    /\ p["fill_color"] \in DOMAIN ParseToken
    /\ "fill_enabled" \notin DOMAIN p

\* C23 (under SpecSync): from a state with fill_enabled false, a write of
\* fill_color to a palette token makes fill_color_css, Local and shared, the
\* resolved colour of that token while fill_enabled stays false and the
\* colour trigger's fill indicator stays hidden.
C23_FillTokenDoesNotEnableFill ==
    [][(WritesFillToken(patch') /\ ~sp["fill_enabled"]) =>
          /\ sp'["fill_color_css"] = resolveColor(patch'["fill_color"], sp'["theme"])
          /\ shared'[Key("fill_color_css")] = sp'["fill_color_css"]
          /\ ~sp'["fill_enabled"]
          /\ ~shared'[Key("fill_enabled")]
          /\ fill_indicator' = "display:none"]_vars

\* fill is off, the fill token is in place and resolved, the indicator hidden
C23_Witness ==
    /\ patch = ("fill_color" :> Token("fill", MaxIndex))
    /\ ~sp["fill_enabled"]
    /\ sp["fill_color_css"] = DEFAULT_PALETTE.fill.light[MaxIndex + 1][1]
    /\ fill_indicator = "display:none"

\* C29 (under Spec): at most one of file_open, color_open and style_open is
\* true in every state reached by tool-button clicks, trigger clicks,
\* file-menu item clicks and outside clicks from all popovers closed.
C29_AtMostOnePopoverOpen ==
    /\ ~(file_open /\ color_open)
    /\ ~(file_open /\ style_open)
    /\ ~(color_open /\ style_open)

\* the cells some patch has written or derived so far
MirroredCells == {k \in DOMAIN sp : Key(k) \in DOMAIN shared}

\* C30 (under SpecSync): after each patch every Local cell, the derived
\* stroke_color_css and fill_color_css included, holds the value of its
\* shared entry <prefix>_k.
C30_LocalEqualsShared ==
    \A k \in MirroredCells : sp[k] = shared[Key(k)]

\* an item of this kind is in the bar
Has(kind) == \E i \in DOMAIN bar_items : bar_items[i].kind = kind

\* C27: each optional part of the bar is present iff its flag is true: the
\* file menu iff show_file_actions, the undo, redo and clear buttons iff
\* show_undo, the colour popover iff show_colors, the style popover iff
\* show_styles, whatever the other flags and the tools tuple are.
C27_PartsFollowFlags ==
    Composed =>
        /\ Has("file_menu") <=> config.show_file_actions
        /\ \A k \in {"undo", "redo", "clear"} : Has(k) <=> config.show_undo
        /\ Has("color_popover") <=> config.show_colors
        /\ Has("style_popover") <=> config.show_styles

\* styles without colours, undo without file menu, and no tool at all
C27_Witness ==
    /\ Composed
    /\ config.tools = <<>>
    /\ ~config.show_file_actions /\ config.show_undo
    /\ ~config.show_colors /\ config.show_styles
    /\ bar_items = <<Divider, Item("undo", ""), Item("redo", ""),
                     Item("clear", ""), Item("style_popover", "")>>

\* the tool ids a preset toolbar asks for
PresetIds ==
    [annotation_toolbar |-> {"pen", "highlighter", "eraser"},
     diagram_toolbar |-> {"select", "line", "arrow", "rect", "ellipse",
                          "diamond", "text"}]

\* C28 as stated: annotation_toolbar renders exactly the tool buttons pen,
\* highlighter and eraser, diagram_toolbar exactly select, line, arrow, rect,
\* ellipse, diamond and text, whatever other keyword options are passed on.
C28_PresetsRenderFixedTools ==
    \A f \in DOMAIN PresetIds :
        last.op = f
            => {ToolButtonIds[i] : i \in DOMAIN ToolButtonIds} = PresetIds[f]

\* C28, amended: a preset toolbar renders exactly those of its tools that
\* tool_groups declares, which with the default tool_groups are all of
\* them, whatever the show flags are.
C28_PresetsRenderDeclaredTools ==
    \A f \in DOMAIN PresetIds :
        last.op = f
            => /\ {ToolButtonIds[i] : i \in DOMAIN ToolButtonIds}
                      = PresetIds[f] \cap Declared(config)
               /\ config.tool_groups = <<>>
                      => Cardinality({ToolButtonIds[i] : i \in DOMAIN ToolButtonIds})
                             = Cardinality(PresetIds[f])

\* annotation_toolbar with every optional part switched off
C28_Witness ==
    /\ last.op = "annotation_toolbar"
    /\ config.tool_groups = <<>>
    /\ bar_items = <<Item("tool", "pen"), Divider, Item("tool", "highlighter"),
                     Item("tool", "eraser")>>

----------------------------------------------------------------------------
(* Palettes (checked under SpecPalette)                                     *)

\* the light and the dark swatch list of every kind have one length
EqualLengths(p) ==
    \A kind \in DOMAIN p : Len(p[kind]["light"]) = Len(p[kind]["dark"])

\* C21: a palette override whose light and dark swatch lists of one kind
\* differ in length is rejected: no call of drawing_toolbar with such a
\* palette returns a toolbar.
C21_UnequalPaletteRejected ==
    (Composed /\ config.palette # <<>>) => EqualLengths(config.palette)

\* the colours of DEFAULT_PALETTE
DefaultColours ==
    {DEFAULT_PALETTE[kind][th][n][1] :
        kind \in Kinds, th \in Themes, n \in 1 .. Len(DEFAULT_PALETTE.stroke.light)}

\* C26: palette_json keeps structure and order and drops only the names:
\* decoded, the result has the kinds and themes of p, result[kind][theme][i]
\* is the colour p[kind][theme][i][0], the lists keep their lengths, and no
\* colour of DEFAULT_PALETTE appears unless it is in p.
C26_PaletteJsonKeepsColours ==
    encoded # NoCall =>
        LET p == encoded.palette
            result == loads(encoded.json)
        IN  /\ DOMAIN result = DOMAIN p
            /\ \A kind \in DOMAIN p :
                   /\ DOMAIN result[kind] = DOMAIN p[kind]
                   /\ \A th \in DOMAIN p[kind] :
                          /\ Len(result[kind][th]) = Len(p[kind][th])
                          /\ \A n \in 1 .. Len(p[kind][th]) :
                                 /\ result[kind][th][n] = p[kind][th][n][1]
                                 /\ result[kind][th][n] \in DefaultColours
                                        => \E m \in 1 .. Len(p[kind][th]) :
                                               p[kind][th][m][1] = result[kind][th][n]

\* a palette with two light stroke swatches, one dark one and two empty
\* fill lists went through palette_json
C26_Witness ==
    /\ encoded # NoCall
    /\ encoded.palette.stroke.light = <<DEFAULT_PALETTE.stroke.light[1], <<"#aaa", "A">> >>
    /\ encoded.palette.stroke.dark = << <<"#aaa", "A">> >>
    /\ encoded.palette.fill.light = <<>>
    /\ loads(encoded.json).stroke.light = <<"#1a1a2e", "#aaa">>
    /\ loads(encoded.json).fill.dark = <<>>

\* C35: a click on Save SVG starts one exportSvg call and sets file_open to
\* false in the same step, with no download yet; a download starts only when
\* a call settles, and then it is one non-empty SVG string; a settlement that
\* is a rejection, and any settlement that starts no download, changes no
\* toolbar signal and no cell; the downloads never outnumber the clicks.
C35_DownloadsOnlyFinishedExports ==
    /\ [](Len(downloaded) + pending <= saves)
    /\ [][saves' # saves =>
             /\ saves' = saves + 1
             /\ pending' = pending + 1
             /\ file_open' = FALSE
             /\ downloaded' = downloaded]_vars
    /\ [][downloaded' # downloaded =>
             /\ pending' = pending - 1
             /\ \E x \in Svgs : downloaded' = Append(downloaded, x)]_vars
    /\ [][(pending' < pending /\ last'.tid = "rejected") =>
             downloaded' = downloaded]_vars
    /\ [][(pending' < pending /\ downloaded' = downloaded) =>
             UNCHANGED <<toolbar_vars, canvas_vars, save_enabled>>]_vars

\* MaxSaves clicks, all settled, one of them with a download
C35_Witness ==
    /\ saves = MaxSaves
    /\ pending = 0
    /\ Len(downloaded) = 1
    /\ last.op = "export_settled"
    /\ ~file_open

----------------------------------------------------------------------------
(* The colour panel (checked under SpecColors)                              *)

\* C22: the swatch at index i of the stroke (fill) grid writes
\* "palette-stroke-i" ("palette-fill-i") in the light and in the dark grid,
\* and once a stroke swatch of index i has been clicked, exactly the swatch
\* at index i is marked selected in the grid of either theme, also after
\* the theme has been switched.
C22_SwatchesWriteAndMatchTokens ==
    /\ last.op = "stroke_swatch" =>
           /\ Cell("stroke_color") = "palette-stroke-" \o last.tid
           /\ \A th \in Themes : \A n \in DOMAIN Grid("stroke", th) :
                  stroke_sel(Grid("stroke", th)[n]) <=> (ToString(n - 1) = last.tid)
    /\ last.op = "fill_swatch" =>
           /\ Cell("fill_color") = "palette-fill-" \o last.tid
           /\ \A th \in Themes : \A n \in DOMAIN Grid("fill", th) :
                  fill_sel(Grid("fill", th)[n]) <=> (ToString(n - 1) = last.tid)

\* the stroke swatch of index MaxIndex was clicked in the light grid, the
\* theme went dark afterwards, and the dark grid marks that swatch
C22_Witness ==
    /\ last.op = "stroke_swatch"
    /\ last.tid = ToString(MaxIndex)
    /\ patch = ("theme" :> "dark")
    /\ Cell("theme") = "dark"
    /\ Cell("stroke_color_css") = DEFAULT_PALETTE.stroke.dark[MaxIndex + 1][1]
    /\ stroke_sel(Grid("stroke", "dark")[MaxIndex + 1])

\* C33: "No fill" is selected iff fill_enabled is false and a fill swatch
\* only if fill_enabled is true, so the two are never selected together;
\* after a "No fill" click fill_enabled is false and fill_color and
\* fill_color_css are empty, and after a click on the fill swatch of index i
\* fill_color is "palette-fill-i" and fill_enabled is true.
C33_FillSelectionUnambiguous ==
    /\ no_fill_selected <=> (Cell("fill_enabled") = FALSE)
    /\ \A th \in Themes : \A n \in DOMAIN Grid("fill", th) :
           /\ fill_sel(Grid("fill", th)[n]) => (Cell("fill_enabled") = TRUE)
           /\ ~(no_fill_selected /\ fill_sel(Grid("fill", th)[n]))
    /\ last.op = "no_fill" =>
           /\ Cell("fill_enabled") = FALSE
           /\ Cell("fill_color") = ""
           /\ Cell("fill_color_css") = ""
           /\ sp["fill_color_css"] = ""
    /\ last.op = "fill_swatch" =>
           /\ Cell("fill_color") = "palette-fill-" \o last.tid
           /\ Cell("fill_enabled") = TRUE

\* a fill swatch was clicked and the controller then reported the fill
\* disabled: the token is still in fill_color, "No fill" is selected and no
\* swatch is
C33_Witness ==
    /\ last.op = "patch"
    /\ Cell("fill_color") = "palette-fill-" \o ToString(MaxIndex)
    /\ Cell("fill_enabled") = FALSE
    /\ no_fill_selected
    /\ \A th \in Themes : \A n \in DOMAIN Grid("fill", th) :
           ~fill_sel(Grid("fill", th)[n])

----------------------------------------------------------------------------
(* The style panel: width and text options (checked under SpecStyle)        *)

\* C31: in every state exactly one of the Width section and the text-options
\* block (font, size, align) is shown: the Width section iff the tool is not
\* text and neither text_editing nor selected_is_text holds, the text block
\* iff one of the three holds.
C31_WidthAndTextComplementary ==
    /\ text_block_shown <=>
           (Cell("tool") = "text" \/ Cell("text_editing") \/ Cell("selected_is_text"))
    /\ width_section_shown <=>
           ~(Cell("tool") = "text" \/ Cell("text_editing") \/ Cell("selected_is_text"))
    /\ width_section_shown # text_block_shown

\* the pen is the tool while a text element is selected: the text block is
\* shown and the Width section is not
C31_Witness ==
    /\ Cell("tool") = "pen"
    /\ Cell("selected_is_text")
    /\ ~Cell("text_editing")
    /\ text_block_shown
    /\ ~width_section_shown

\* C32: after any sequence of dash preset clicks, Dash size slider writes
\* and Dot spacing slider writes (half steps included), exactly one of the
\* Solid, Dashed and Dotted buttons is selected, the Dash size slider is
\* shown only when Dashed is selected, the Dot spacing slider only when
\* Dotted is selected, and the two sliders are never shown together.
C32_DashControlsConsistent ==
    /\ Cardinality({x \in DashPresets : PresetSelected[x]}) = 1
    /\ dash_size_shown => dashed_selected
    /\ dot_spacing_shown => dotted_selected
    /\ ~(dash_size_shown /\ dot_spacing_shown)

\* the Dot spacing slider wrote 2.5 with Dotted selected: Dotted alone is
\* selected and only the Dot spacing slider is shown
C32_Witness ==
    /\ last.op = "dot_spacing"
    /\ Cell("dash_gap") = Num(2) + 1
    /\ Cell("dash_length") = 0
    /\ dotted_selected
    /\ dot_spacing_shown
    /\ ~dash_size_shown

----------------------------------------------------------------------------
(* The file menu (checked under SpecFile)                                   *)

\* C24: the Save SVG control is enabled in every state, whether exportSvg
\* calls are pending, fulfilled or rejected; a click while a call is pending
\* starts a second call that only closes the file menu, and a settlement
\* changes no toolbar signal and no cell.
C24_SaveControlReleased ==
    /\ [](save_enabled /\ pending \in 0 .. MaxPending)
    /\ [][pending' < pending => UNCHANGED <<toolbar_vars, canvas_vars>>]_vars
    /\ [][pending' > pending =>
             /\ file_open' = FALSE
             /\ UNCHANGED <<style_open, color_open, text_seen, arrow_seen,
                            canvas_vars>>]_vars

\* MaxPending exports overlapped, one of them was rejected, and the control
\* still takes clicks
C24_Witness ==
    /\ last.op = "export_settled"
    /\ last.tid = "rejected"
    /\ pending = MaxPending - 1
    /\ save_enabled

Count(seq, x) == Cardinality({n \in DOMAIN seq : seq[n] = x})

FileTexts == {file.text : file \in Files}

\* C25: every selected file's text is the argument of exactly one importSvg
\* call once its read is done (unchanged, whatever the text is), a change
\* without a file makes no call, and the input's value is empty after each
\* call.
C25_ImportForwardsFile ==
    /\ \A x \in FileTexts :
           Count(chosen, x) = Count(imported, x) + Count(reading, x)
    /\ Len(chosen) = Len(imported) + Len(reading)
    /\ last.op = "import" => input_value = ""
    /\ (reading = <<>> /\ Len(chosen) = 1) => imported = chosen

\* a file that is no SVG and the empty file were both chosen and both
\* reached importSvg
C25_Witness ==
    /\ last.op = "import"
    /\ reading = <<>>
    /\ Count(imported, "hello") = 1
    /\ Count(imported, "") = 1

====
